---- MODULE Spec2Model ----
(***************************************************************************)
(* Model of pdf_on_submit/attach_pdf.py: the submit hook attach_pdf, the   *)
(* queued job execute, and the helpers create_folder, save_and_attach and  *)
(* set_name_from_naming_options.                                           *)
(*                                                                         *)
(* Python strings are sequences of one-character strings, so that          *)
(* str.lower, str.startswith, str.replace and "/".join are computed.       *)
(* Python None is the one-element sequence <<"None">>, which is no string. *)
(***************************************************************************)
EXTENDS Integers, Sequences, FiniteSets, Bags, TLC

VARIABLES
    settings,        \* the rows of "PDF on Submit Settings".enabled_for
    files,           \* the bag of File documents saved by save_and_attach
    folders,         \* names of the File documents that are folders
    newFolderCalls,  \* the calls of create_new_folder made so far, as paths
    hook,            \* the running call of attach_pdf
    jobs,            \* the run of execute on each queue worker
    runs,            \* the runs of execute started so far
    call             \* the running call of create_folder (called on its own)

vars == <<settings, files, folders, newFolderCalls, hook, jobs, runs, call>>

----------------------------------------------------------------------------
(* Bounds *)

MaxFiles == 2        \* File documents attach_pdf may save in one behaviour
MaxRuns == 2         \* runs of execute started in one behaviour
MaxFolderCalls == 4  \* calls of create_folder in one sequential behaviour

----------------------------------------------------------------------------
(* Python values *)

None == <<"None">>

Truthy(v) == v # None /\ v # <<>>

Home == <<"H", "o", "m", "e">>
DotPdf == <<".", "p", "d", "f">>
FormatPrefix == <<"f", "o", "r", "m", "a", "t", ":">>
SalesInvoice == <<"S", "a", "l", "e", "s", " ", "I", "n", "v", "o", "i", "c", "e">>
Quotation == <<"Q", "u", "o", "t", "a", "t", "i", "o", "n">>

UpperCase == <<"A", "B", "C", "D", "E", "F", "G", "H", "I", "J", "K", "L", "M",
               "N", "O", "P", "Q", "R", "S", "T", "U", "V", "W", "X", "Y", "Z">>
LowerCase == <<"a", "b", "c", "d", "e", "f", "g", "h", "i", "j", "k", "l", "m",
               "n", "o", "p", "q", "r", "s", "t", "u", "v", "w", "x", "y", "z">>

\* str.lower() on one character
LowerChar(c) ==
    IF \E i \in 1..Len(UpperCase) : UpperCase[i] = c
    THEN LowerCase[CHOOSE i \in 1..Len(UpperCase) : UpperCase[i] = c]
    ELSE c

\* autoname.lower()
Lower(s) == [i \in 1..Len(s) |-> LowerChar(s[i])]

\* s.startswith(p)
StartsWith(s, p) == Len(s) >= Len(p) /\ SubSeq(s, 1, Len(p)) = p

\* s.replace("/", "-")
ReplaceSlash(s) == [i \in 1..Len(s) |-> IF s[i] = "/" THEN "-" ELSE s[i]]

\* "/".join([parent, folder])
JoinPath(parent, folder) == parent \o <<"/">> \o folder

\* the first index of c in s, 0 when there is none (str.find, 1-based)
Find(s, c) ==
    IF \E i \in 1..Len(s) : s[i] = c
    THEN CHOOSE i \in 1..Len(s) : s[i] = c /\ \A j \in 1..(i - 1) : s[j] # c
    ELSE 0

\* frappe.get_doc(doctype, name): the document, of which the naming reads
\* doctype and name
get_doc(doctype, name) == [doctype |-> doctype, name |-> name]

\* The value a braced parameter {p} of a format: autoname stands for: the
\* document's field p when it has one, else the parameter text itself.
ParamValue(p, doc) ==
    IF p = <<"n", "a", "m", "e">> THEN doc.name
    ELSE IF p = <<"d", "o", "c", "t", "y", "p", "e">> THEN doc.doctype
    ELSE p

RECURSIVE SubstBraces(_, _)
SubstBraces(s, doc) ==
    IF s = <<>> THEN <<>>
    ELSE IF Head(s) = "{" /\ Find(s, "}") > 2
              /\ \A j \in 2..(Find(s, "}") - 1) : s[j] \notin {"{", "/", ":"}
         THEN ParamValue(SubSeq(s, 2, Find(s, "}") - 1), doc)
                  \o SubstBraces(SubSeq(s, Find(s, "}") + 1, Len(s)), doc)
         ELSE <<Head(s)>> \o SubstBraces(Tail(s), doc)

\* frappe.model.naming._format_autoname(autoname, doc): the text after the
\* first colon with its braced parameters substituted
format_autoname(autoname, doc) ==
    SubstBraces(SubSeq(autoname, Find(autoname, ":") + 1, Len(autoname)), doc)

\* the comparison without autoname.lower()
set_name_case_sensitive(autoname, doc) ==
    IF StartsWith(autoname, FormatPrefix)
    THEN format_autoname(autoname, doc)
    ELSE doc.name

set_name_from_naming_options(autoname, doc) ==
    IF StartsWith(Lower(autoname), FormatPrefix)
    THEN format_autoname(autoname, doc)
    ELSE doc.name

\* the file name save_and_attach chooses
FileName(auto_name, to_doctype, to_name) ==
    IF Truthy(auto_name)
    THEN ReplaceSlash(set_name_from_naming_options(auto_name, get_doc(to_doctype, to_name)))
             \o DotPdf
    ELSE ReplaceSlash(to_name) \o DotPdf

\* save_and_attach leaving the File private
save_and_attach_private(content, to_doctype, to_name, folder, auto_name) ==
    [file_name |-> FileName(auto_name, to_doctype, to_name),
     content |-> content,
     folder |-> folder,
     is_private |-> 1,
     attached_to_doctype |-> to_doctype,
     attached_to_name |-> to_name]

\* the File document save_and_attach fills in and saves
save_and_attach(content, to_doctype, to_name, folder, auto_name) ==
    [file_name |-> FileName(auto_name, to_doctype, to_name),
     content |-> content,
     folder |-> folder,
     is_private |-> 0,
     attached_to_doctype |-> to_doctype,
     attached_to_name |-> to_name]

\* getattr(obj, attr, default)
getattr(obj, attr, default) == IF attr \in DOMAIN obj THEN obj[attr] ELSE default

\* settings.get("enabled_for", {"document_type": doctype})
EnabledRows(rows, doctype) ==
    SelectSeq(rows, LAMBDA r : r.document_type = doctype)

----------------------------------------------------------------------------
(* PDF data *)

PdfNone == [kind |-> "none"]

\* what PrintFormatGenerator(print_format, doc, letter_head).render_pdf()
\* and get_pdf(get_print(...)) return when they return data
RenderedPdf(print_format, doctype, name, letter_head) ==
    [kind |-> "pdf", print_format |-> print_format,
     doctype |-> doctype, name |-> name, letter_head |-> letter_head,
     xml |-> FALSE]

\* file.save(): one more File document in the database
Saved(db, file) == db (+) SetToBag({file})

\* eu_einvoice's attach_xml_to_pdf(name, pdf_data)
attach_xml_to_pdf(name, pdf_data) == [pdf_data EXCEPT !.xml = TRUE]

----------------------------------------------------------------------------
(* Inputs *)

Doctypes == {SalesInvoice, Quotation}
Names == {<<"A", "/", "1", "/", "2">>, <<"Q", "-", "7">>}
Docs == [doctype : Doctypes, name : Names]

AutoNames ==
    { None,
      <<>>,
      <<"h", "a", "s", "h">>,
      <<"f", "o", "r", "m", "a", "t">>,
      <<"f", "o", "r", "m", "a", "t", ":", "P", "/", "{", "n", "a", "m", "e", "}">>,
      <<"F", "o", "r", "m", "a", "t", ":", "{", "x", "}", "/", "9">>,
      <<"F", "O", "R", "M", "A", "T", ":", "z">> }

PDFs == <<"H", "o", "m", "e", "/", "P", "D", "F", "s">>
TargetFolders == {None, <<>>, PDFs}

RowsNoFolderField ==
    [document_type : Doctypes, auto_name : AutoNames,
     print_format : {"PF"}, letter_head : {"LH"}]
RowsFolderField ==
    [document_type : Doctypes, auto_name : AutoNames,
     print_format : {"PF"}, letter_head : {"LH"}, target_folder : TargetFolders]
AllRows == RowsNoFolderField \cup RowsFolderField
SecondRows == {r \in RowsFolderField : r.auto_name = None /\ r.target_folder = PDFs}

SettingsChoices ==
    {<<>>} \cup {<<r>> : r \in AllRows}
           \cup {<<r, s>> : r \in AllRows, s \in SecondRows}

RenderOutcomes == {"data", "none", "TypeError", "Exception"}

----------------------------------------------------------------------------
(* attach_pdf *)

NoRow == [document_type |-> None]

HookIdle ==
    [pc |-> "idle", doc |-> [doctype |-> None, name |-> None], row |-> NoRow,
     target_folder |-> None, pdf_data |-> PdfNone, rendered |-> FALSE,
     outcome |-> "", saved |-> <<>>, errors |-> <<>>, logs |-> <<>>,
     before |-> 0]

\* the submit hook calls attach_pdf(doc)
AttachCall(doc) ==
    /\ hook.pc = "idle"
    /\ BagCardinality(files) < MaxFiles
    /\ hook' = [HookIdle EXCEPT !.pc = "settings", !.doc = doc,
                                !.before = BagCardinality(files)]
    /\ UNCHANGED <<settings, files, folders, newFolderCalls, jobs, call, runs>>

\* lines 15-28: the enabled row, or the error and the return
AttachSettings ==
    /\ hook.pc = "settings"
    /\ LET enabled_doctypes == EnabledRows(settings, hook.doc.doctype) IN
       IF enabled_doctypes # <<>>
       THEN hook' = [hook EXCEPT !.pc = "render",
                                 !.row = enabled_doctypes[1],
                                 !.target_folder = getattr(enabled_doctypes[1], "target_folder", Home),
                                 !.logs = Append(@, "generating")]
       ELSE hook' = [hook EXCEPT !.pc = "returned",
                                 !.errors = Append(@, "no enabled doctype")]
    /\ UNCHANGED <<settings, files, folders, newFolderCalls, jobs, call, runs>>

\* a try that handles TypeError alone
CaughtTypeErrorOnly(exc) == exc = "TypeError"

\* lines 37-42: the exceptions the try of attach_pdf handles
CaughtByAttach(exc) == exc \in {"TypeError", "Exception"}

\* a try that handles ValueError in place of TypeError
CaughtValueErrorOnly(exc) == exc = "ValueError"

\* lines 94-96: the exceptions the try of execute handles
CaughtByExecute(exc) == exc = "TypeError"

\* the message logged for a handled exception
ErrorMessage(exc) ==
    IF exc = "TypeError" THEN "Error generating PDF"
    ELSE "Unexpected error generating PDF"

\* lines 30-42: render_pdf returns data, returns None or raises
AttachRender(outcome) ==
    /\ hook.pc = "render"
    /\ hook' =
         CASE outcome = "data" ->
                [hook EXCEPT !.pc = "save", !.rendered = TRUE, !.outcome = outcome,
                             !.pdf_data = RenderedPdf(hook.row.print_format,
                                              hook.doc.doctype, hook.doc.name,
                                              hook.row.letter_head),
                             !.logs = Append(@, "generated")]
           [] outcome = "none" ->
                [hook EXCEPT !.pc = "returned", !.rendered = TRUE, !.outcome = outcome,
                             !.errors = Append(@, "PDF data is None")]
           [] OTHER ->
                IF CaughtByAttach(outcome)
                THEN [hook EXCEPT !.pc = "returned", !.rendered = TRUE,
                                  !.outcome = outcome,
                                  !.errors = Append(@, ErrorMessage(outcome))]
                ELSE [hook EXCEPT !.pc = "raised", !.rendered = TRUE,
                                  !.outcome = outcome]
    /\ UNCHANGED <<settings, files, folders, newFolderCalls, jobs, call, runs>>

\* lines 44-45
AttachSave ==
    /\ hook.pc = "save"
    /\ LET file == save_and_attach(hook.pdf_data, hook.doc.doctype, hook.doc.name,
                                   hook.target_folder, hook.row.auto_name) IN
       /\ files' = Saved(files, file)
       /\ hook' = [hook EXCEPT !.pc = "returned", !.saved = Append(@, file),
                               !.logs = Append(@, "saved and attached")]
    /\ UNCHANGED <<settings, folders, newFolderCalls, jobs, call, runs>>

\* the hook is ready for the next submission
AttachReturn ==
    /\ hook.pc \in {"returned", "raised"}
    /\ hook' = HookIdle
    /\ UNCHANGED <<settings, files, folders, newFolderCalls, jobs, call, runs>>

----------------------------------------------------------------------------
(* create_folder, called on its own *)

\* line 122
NewFolderName(folder, parent) == JoinPath(parent, folder)

\* create_folder without the check of line 124
FolderAlwaysMissing(fs, new_folder_name) == TRUE

\* line 124: not frappe.db.exists("File", new_folder_name)
FolderMissing(fs, new_folder_name) == new_folder_name \notin fs

\* create_new_folder(folder, parent): the folder File named parent/folder is
\* in the database afterwards
create_new_folder(fs, folder, parent) == fs \cup {JoinPath(parent, folder)}

\* one more call of create_new_folder for `path`
Counted(calls, path) ==
    IF path \in DOMAIN calls
    THEN [calls EXCEPT ![path] = @ + 1]
    ELSE [q \in DOMAIN calls \cup {path} |-> IF q = path THEN 1 ELSE calls[q]]

CallsFor(path) == IF path \in DOMAIN newFolderCalls THEN newFolderCalls[path] ELSE 0

NoCalls == [q \in {} |-> 0]

Title1 == <<"T", "1">>
FolderArgs == Doctypes \cup {Title1}
ParentArgs == {Home, JoinPath(Home, SalesInvoice)}

CallIdle ==
    [pc |-> "idle", folder |-> None, parent |-> None, ret |-> None,
     existed |-> FALSE, callsBefore |-> 0, n |-> 0]

\* create_folder(folder, parent) is called; line 122
FolderCall(folder, parent) ==
    /\ call.pc = "idle"
    /\ call.n < MaxFolderCalls
    /\ call' = [call EXCEPT !.pc = "check", !.folder = folder, !.parent = parent,
                            !.ret = None,
                            !.existed = JoinPath(parent, folder) \in folders,
                            !.callsBefore = CallsFor(NewFolderName(folder, parent)),
                            !.n = @ + 1]
    /\ UNCHANGED <<settings, files, folders, newFolderCalls, hook, jobs, runs>>

\* line 124
FolderCheck ==
    /\ call.pc = "check"
    /\ call' = [call EXCEPT !.pc =
                   IF FolderMissing(folders, NewFolderName(call.folder, call.parent))
                   THEN "create" ELSE "return"]
    /\ UNCHANGED <<settings, files, folders, newFolderCalls, hook, jobs, runs>>

\* line 125
FolderCreate ==
    /\ call.pc = "create"
    /\ folders' = create_new_folder(folders, call.folder, call.parent)
    /\ newFolderCalls' = Counted(newFolderCalls, JoinPath(call.parent, call.folder))
    /\ call' = [call EXCEPT !.pc = "return"]
    /\ UNCHANGED <<settings, files, hook, jobs, runs>>

\* line 127
FolderReturn ==
    /\ call.pc = "return"
    /\ call' = [call EXCEPT !.pc = "returned",
                            !.ret = NewFolderName(call.folder, call.parent)]
    /\ UNCHANGED <<settings, files, folders, newFolderCalls, hook, jobs, runs>>

\* the caller goes on
FolderDone ==
    /\ call.pc = "returned"
    /\ call' = [call EXCEPT !.pc = "idle"]
    /\ UNCHANGED <<settings, files, folders, newFolderCalls, hook, jobs, runs>>

----------------------------------------------------------------------------
(* execute *)

ExecArgs ==
    [doctype : Doctypes, name : {<<"A", "/", "1", "/", "2">>},
     title : {None, <<>>, Title1}, show_progress : BOOLEAN,
     auto_name : {None}, print_format : {"PF"}, letter_head : {"LH"}]

JobQueued ==
    [pc |-> "queued", args |-> [doctype |-> None], doctype_folder |-> None,
     title_folder |-> None, target_folder |-> None, pdf_data |-> PdfNone,
     rendered |-> PdfNone, outcome |-> "", xml |-> "", published |-> <<>>,
     saved |-> <<>>, errors |-> <<>>, logs |-> <<>>]

JobOff == [JobQueued EXCEPT !.pc = "off"]

\* publish_progress(percent) whatever show_progress is
PublishedAlways(job, percent) == Append(job.published, percent)

\* publish_progress(percent) when show_progress
Published(job, percent) ==
    IF job.args.show_progress THEN Append(job.published, percent) ELSE job.published

\* the queue calls execute(doctype, name, title, ...)
JobStart(j, args) ==
    /\ jobs[j].pc = "queued"
    /\ runs < MaxRuns
    /\ runs' = runs + 1
    /\ jobs' = [jobs EXCEPT ![j] = [JobQueued EXCEPT !.pc = "publish0", !.args = args]]
    /\ UNCHANGED <<settings, files, folders, newFolderCalls, hook, call>>

\* lines 74-75
JobPublish0(j) ==
    /\ jobs[j].pc = "publish0"
    /\ jobs' = [jobs EXCEPT ![j].pc = "check_doctype_folder",
                            ![j].published = Published(jobs[j], 0)]
    /\ UNCHANGED <<settings, files, folders, newFolderCalls, hook, call, runs>>

\* line 78 with "if title is not None" for "if title"
AfterDoctypeFolderNotNone(job) ==
    IF job.args.title # None THEN "check_title_folder" ELSE "target_folder"

\* where execute goes on after create_folder(doctype, "Home") returned; line 78
AfterDoctypeFolder(job) ==
    IF Truthy(job.args.title) THEN "check_title_folder" ELSE "target_folder"

\* line 77, create_folder lines 122-124 and 127
JobCheckDoctypeFolder(j) ==
    /\ jobs[j].pc = "check_doctype_folder"
    /\ LET path == NewFolderName(jobs[j].args.doctype, Home) IN
       jobs' = [jobs EXCEPT ![j].doctype_folder = path,
                            ![j].pc = IF FolderMissing(folders, path)
                                      THEN "create_doctype_folder"
                                      ELSE AfterDoctypeFolder(jobs[j])]
    /\ UNCHANGED <<settings, files, folders, newFolderCalls, hook, call, runs>>

\* line 77, create_folder line 125: the folder is inserted, or is there
\* already and the insert is ignored
JobCreateDoctypeFolder(j) ==
    /\ jobs[j].pc = "create_doctype_folder"
    /\ folders' = create_new_folder(folders, jobs[j].args.doctype, Home)
    /\ newFolderCalls' = Counted(newFolderCalls, JoinPath(Home, jobs[j].args.doctype))
    /\ jobs' = [jobs EXCEPT ![j].pc = AfterDoctypeFolder(jobs[j])]
    /\ UNCHANGED <<settings, files, hook, call, runs>>

\* line 77, create_folder line 125: the folder is there already and the
\* insert raises a duplicate entry error, which execute does not handle
JobCreateDoctypeFolderDuplicate(j) ==
    /\ jobs[j].pc = "create_doctype_folder"
    /\ JoinPath(Home, jobs[j].args.doctype) \in folders
    /\ newFolderCalls' = Counted(newFolderCalls, JoinPath(Home, jobs[j].args.doctype))
    /\ jobs' = [jobs EXCEPT ![j].pc = "raised"]
    /\ UNCHANGED <<settings, files, folders, hook, call, runs>>

\* line 78, create_folder lines 122-124 and 127
JobCheckTitleFolder(j) ==
    /\ jobs[j].pc = "check_title_folder"
    /\ LET path == NewFolderName(jobs[j].args.title, jobs[j].doctype_folder) IN
       jobs' = [jobs EXCEPT ![j].title_folder = path,
                            ![j].pc = IF FolderMissing(folders, path)
                                      THEN "create_title_folder"
                                      ELSE "target_folder"]
    /\ UNCHANGED <<settings, files, folders, newFolderCalls, hook, call, runs>>

\* line 78, create_folder line 125
JobCreateTitleFolder(j) ==
    /\ jobs[j].pc = "create_title_folder"
    /\ folders' = create_new_folder(folders, jobs[j].args.title, jobs[j].doctype_folder)
    /\ newFolderCalls' = Counted(newFolderCalls,
                                 JoinPath(jobs[j].doctype_folder, jobs[j].args.title))
    /\ jobs' = [jobs EXCEPT ![j].pc = "target_folder"]
    /\ UNCHANGED <<settings, files, hook, call, runs>>

\* line 78, create_folder line 125, the duplicate entry error
JobCreateTitleFolderDuplicate(j) ==
    /\ jobs[j].pc = "create_title_folder"
    /\ JoinPath(jobs[j].doctype_folder, jobs[j].args.title) \in folders
    /\ newFolderCalls' = Counted(newFolderCalls,
                                 JoinPath(jobs[j].doctype_folder, jobs[j].args.title))
    /\ jobs' = [jobs EXCEPT ![j].pc = "raised"]
    /\ UNCHANGED <<settings, files, folders, hook, call, runs>>

\* line 79: title_folder or doctype_folder
TargetFolder(title_folder, doctype_folder) ==
    IF Truthy(title_folder) THEN title_folder ELSE doctype_folder

\* lines 79-82
JobPublish33(j) ==
    /\ jobs[j].pc = "target_folder"
    /\ jobs' = [jobs EXCEPT ![j].target_folder =
                                TargetFolder(jobs[j].title_folder, jobs[j].doctype_folder),
                            ![j].published = Published(jobs[j], 33),
                            ![j].pc = "render"]
    /\ UNCHANGED <<settings, files, folders, newFolderCalls, hook, call, runs>>

\* where execute goes on with the PDF data; line 100
AfterRender(job) ==
    IF job.args.doctype = SalesInvoice THEN "einvoice" ELSE "publish66"

\* lines 85-96: the print format is a print-format-builder-beta format
JobRenderBeta(j, outcome) ==
    /\ jobs[j].pc = "render"
    /\ LET job == jobs[j]
           data == RenderedPdf(job.args.print_format, job.args.doctype,
                               job.args.name, job.args.letter_head) IN
       jobs' = [jobs EXCEPT ![j] =
         CASE outcome = "data" ->
                [job EXCEPT !.pc = AfterRender(job), !.outcome = outcome,
                            !.pdf_data = data, !.rendered = data,
                            !.logs = Append(@, "generated")]
           [] outcome = "none" ->
                [job EXCEPT !.pc = "returned", !.outcome = outcome,
                            !.errors = Append(@, "PDF data is None")]
           [] OTHER ->
                IF CaughtByExecute(outcome)
                THEN [job EXCEPT !.pc = "returned", !.outcome = outcome,
                                 !.errors = Append(@, ErrorMessage(outcome))]
                ELSE [job EXCEPT !.pc = "raised", !.outcome = outcome]]
    /\ UNCHANGED <<settings, files, folders, newFolderCalls, hook, call, runs>>

\* lines 97-98 and get_pdf_data, lines 130-137: get_print and get_pdf return
\* the PDF, or one of them raises
JobRenderClassic(j, outcome) ==
    /\ jobs[j].pc = "render"
    /\ LET job == jobs[j]
           data == RenderedPdf(job.args.print_format, job.args.doctype,
                               job.args.name, job.args.letter_head) IN
       jobs' = [jobs EXCEPT ![j] =
         IF outcome = "data"
         THEN [job EXCEPT !.pc = AfterRender(job), !.outcome = "classic data",
                          !.pdf_data = data, !.rendered = data,
                          !.logs = Append(@, "generated")]
         ELSE [job EXCEPT !.pc = "raised", !.outcome = "classic raised"]]
    /\ UNCHANGED <<settings, files, folders, newFolderCalls, hook, call, runs>>

EInvoiceOutcomes == {"not installed", "attached", "failed"}

\* lines 100-108, for a Sales Invoice: eu_einvoice is not installed, or
\* attach_xml_to_pdf returns the PDF with the XML, or it raises
JobEInvoice(j, outcome) ==
    /\ jobs[j].pc = "einvoice"
    /\ LET job == jobs[j] IN
       jobs' = [jobs EXCEPT ![j] =
         CASE outcome = "not installed" ->
                [job EXCEPT !.pc = "publish66", !.xml = outcome]
           [] outcome = "attached" ->
                [job EXCEPT !.pc = "publish66", !.xml = outcome,
                            !.pdf_data = attach_xml_to_pdf(job.args.name, job.pdf_data)]
           [] OTHER ->
                [job EXCEPT !.pc = "publish66", !.xml = outcome,
                            !.errors = Append(@, "Failed to attach XML")]]
    /\ UNCHANGED <<settings, files, folders, newFolderCalls, hook, call, runs>>

\* lines 110-111
JobPublish66(j) ==
    /\ jobs[j].pc = "publish66"
    /\ jobs' = [jobs EXCEPT ![j].pc = "save",
                            ![j].published = Published(jobs[j], 66)]
    /\ UNCHANGED <<settings, files, folders, newFolderCalls, hook, call, runs>>

\* lines 113-114
JobSave(j) ==
    /\ jobs[j].pc = "save"
    /\ LET job == jobs[j]
           file == save_and_attach(job.pdf_data, job.args.doctype, job.args.name,
                                   job.target_folder, job.args.auto_name) IN
       /\ files' = Saved(files, file)
       /\ jobs' = [jobs EXCEPT ![j].pc = "publish100",
                               ![j].saved = Append(@, file),
                               ![j].logs = Append(@, "saved and attached")]
    /\ UNCHANGED <<settings, folders, newFolderCalls, hook, call, runs>>

\* lines 116-117
JobPublish100(j) ==
    /\ jobs[j].pc = "publish100"
    /\ jobs' = [jobs EXCEPT ![j].pc = "done",
                            ![j].published = Published(jobs[j], 100)]
    /\ UNCHANGED <<settings, files, folders, newFolderCalls, hook, call, runs>>

\* the run is over (done, returned early or raised) and the worker takes
\* the next job from the queue
JobFinish(j) ==
    /\ jobs[j].pc \in {"done", "returned", "raised"}
    /\ jobs' = [jobs EXCEPT ![j] = JobQueued]
    /\ UNCHANGED <<settings, files, folders, newFolderCalls, hook, call, runs>>

----------------------------------------------------------------------------
(* Specifications *)

\* the workers of the queue, which run execute concurrently
JobIds == {"worker1", "worker2"}

\* the site calls attach_pdf from its submit hook; nothing is queued
InitAttach ==
    /\ settings \in SettingsChoices
    /\ files = EmptyBag
    /\ folders = {Home}
    /\ newFolderCalls = NoCalls
    /\ hook = HookIdle
    /\ runs = 0
    /\ jobs = [j \in JobIds |-> JobOff]
    /\ call = [CallIdle EXCEPT !.pc = "off"]

NextAttach ==
    \/ \E doc \in Docs : AttachCall(doc)
    \/ AttachSettings
    \/ \E outcome \in RenderOutcomes : AttachRender(outcome)
    \/ AttachSave
    \/ AttachReturn

SpecAttach == InitAttach /\ [][NextAttach]_vars

\* the site queues execute on submit
InitExec ==
    /\ settings = <<>>
    /\ files = EmptyBag
    /\ folders = {Home}
    /\ newFolderCalls = NoCalls
    /\ hook = [HookIdle EXCEPT !.pc = "off"]
    /\ runs = 0
    /\ jobs = [j \in JobIds |-> JobQueued]
    /\ call = [CallIdle EXCEPT !.pc = "off"]

NextExec ==
    \E j \in JobIds :
        \/ \E args \in ExecArgs : JobStart(j, args)
        \/ JobPublish0(j)
        \/ JobCheckDoctypeFolder(j)
        \/ JobCreateDoctypeFolder(j)
        \/ JobCreateDoctypeFolderDuplicate(j)
        \/ JobCheckTitleFolder(j)
        \/ JobCreateTitleFolder(j)
        \/ JobCreateTitleFolderDuplicate(j)
        \/ JobPublish33(j)
        \/ \E outcome \in RenderOutcomes : JobRenderBeta(j, outcome)
        \/ \E outcome \in {"data", "Exception"} : JobRenderClassic(j, outcome)
        \/ \E outcome \in EInvoiceOutcomes : JobEInvoice(j, outcome)
        \/ JobPublish66(j)
        \/ JobSave(j)
        \/ JobPublish100(j)
        \/ JobFinish(j)

SpecExec == InitExec /\ [][NextExec]_vars

\* create_folder is called on its own, one call after the other
InitFolder ==
    /\ settings = <<>>
    /\ files = EmptyBag
    /\ folders \in {{Home}, {Home, JoinPath(Home, SalesInvoice)}}
    /\ newFolderCalls = NoCalls
    /\ hook = [HookIdle EXCEPT !.pc = "off"]
    /\ runs = 0
    /\ jobs = [j \in JobIds |-> JobOff]
    /\ call = CallIdle

NextFolder ==
    \/ \E folder \in FolderArgs, parent \in ParentArgs : FolderCall(folder, parent)
    \/ FolderCheck
    \/ FolderCreate
    \/ FolderReturn
    \/ FolderDone

SpecFolder == InitFolder /\ [][NextFolder]_vars

Init == InitAttach \/ InitExec

Next == NextAttach \/ NextExec

Spec == Init /\ [][Next]_vars

----------------------------------------------------------------------------
(* Properties *)

Range(s) == {s[i] : i \in 1..Len(s)}
IsPrefix(s, t) == Len(s) <= Len(t) /\ s = SubSeq(t, 1, Len(s))
EndsWith(s, suffix) ==
    Len(s) >= Len(suffix) /\ SubSeq(s, Len(s) - Len(suffix) + 1, Len(s)) = suffix

\* "format:" in any letter case at the start of an autoname
HasFormatPrefix(a) ==
    /\ Len(a) >= 7
    /\ a[1] \in {"f", "F"} /\ a[2] \in {"o", "O"} /\ a[3] \in {"r", "R"}
    /\ a[4] \in {"m", "M"} /\ a[5] \in {"a", "A"} /\ a[6] \in {"t", "T"}
    /\ a[7] = ":"

\* the folder the documentation of execute names for a run
DocumentedFolder(args) ==
    IF args.title # None /\ Len(args.title) > 0
    THEN Home \o <<"/">> \o args.doctype \o <<"/">> \o args.title
    ELSE Home \o <<"/">> \o args.doctype

\* the File is attached to (doctype, name) and public
AttachedPublic(file, doctype, name) ==
    /\ file.attached_to_doctype = doctype
    /\ file.attached_to_name = name
    /\ file.is_private = 0

\* attach_pdf of C1: a call whose render returned data saved exactly one File,
\* attached to the document, public, with the rendered data as content
AttachPdfAttaches ==
    (hook.pc = "returned" /\ hook.outcome = "data") =>
        /\ Len(hook.saved) = 1
        /\ BagCardinality(files) = hook.before + 1
        /\ BagIn(hook.saved[1], files)
        /\ AttachedPublic(hook.saved[1], hook.doc.doctype, hook.doc.name)
        /\ hook.saved[1].content.kind = "pdf"
        /\ hook.saved[1].content =
              RenderedPdf(hook.row.print_format, hook.doc.doctype, hook.doc.name,
                          hook.row.letter_head)

\* C1, as amended: a call of attach_pdf for a document with an enabled row
\* whose render returns data saves exactly one File, attached to the
\* document, public, with the rendered PDF data as content; a successful run
\* of execute saves one File, attached to (doctype, name) and public, whose
\* content is the rendered PDF data, or, when attach_xml_to_pdf succeeded
\* for a Sales Invoice, the value attach_xml_to_pdf returned for it.
C1_FileAttachedWithPdfOrXmlPdf ==
    /\ AttachPdfAttaches
    /\ \A j \in JobIds :
         jobs[j].pc = "done" =>
            /\ Len(jobs[j].saved) = 1
            /\ BagIn(jobs[j].saved[1], files)
            /\ AttachedPublic(jobs[j].saved[1], jobs[j].args.doctype, jobs[j].args.name)
            /\ jobs[j].rendered.kind = "pdf"
            /\ jobs[j].saved[1].content =
                  IF jobs[j].xml = "attached"
                  THEN attach_xml_to_pdf(jobs[j].args.name, jobs[j].rendered)
                  ELSE jobs[j].rendered

\* C1 witness: a run of execute for a Sales Invoice is done and has saved the
\* PDF with the XML attached
C1_Witness ==
    \E j \in JobIds :
        /\ jobs[j].pc = "done"
        /\ jobs[j].xml = "attached"
        /\ Len(jobs[j].saved) = 1
        /\ BagIn(jobs[j].saved[1], files)

\* C1 as stated: the File of attach_pdf and the File of a successful run of
\* execute both carry the rendered PDF data as content
C1_FileCarriesRenderedPdf ==
    /\ AttachPdfAttaches
    /\ \A j \in JobIds :
         jobs[j].pc = "done" =>
            /\ Len(jobs[j].saved) = 1
            /\ AttachedPublic(jobs[j].saved[1], jobs[j].args.doctype, jobs[j].args.name)
            /\ jobs[j].saved[1].content = jobs[j].rendered

\* C2: in every run of execute the folders are created before the PDF data
\* is obtained, and the data is obtained before the File is saved; the File
\* is saved into Home/<doctype>/<title> when title is non-empty and into
\* Home/<doctype> otherwise, and that folder exists when the File is saved.
C2_FoldersThenPdfThenSave ==
    \A j \in JobIds :
        LET job == jobs[j] IN
        /\ job.pc \in {"check_title_folder", "create_title_folder"} =>
              Home \o <<"/">> \o job.args.doctype \in folders
        /\ (job.rendered # PdfNone \/ job.pc \in {"render", "save"}) =>
              /\ job.target_folder = DocumentedFolder(job.args)
              /\ DocumentedFolder(job.args) \in folders
              /\ Home \o <<"/">> \o job.args.doctype \in folders
        /\ job.saved # <<>> =>
              /\ job.rendered # PdfNone
              /\ job.saved[1].folder = DocumentedFolder(job.args)
              /\ job.saved[1].folder \in folders

\* C2 witness: a run with a title has saved its File into the title folder
C2_Witness ==
    \E j \in JobIds :
        /\ jobs[j].saved # <<>>
        /\ jobs[j].args.title = Title1
        /\ jobs[j].saved[1].folder = Home \o <<"/">> \o jobs[j].args.doctype \o <<"/">> \o Title1
        /\ jobs[j].saved[1].folder \in folders

\* C3: the percentages a run of execute has published are a prefix of
\* 0, 33, 66, 100 with show_progress and none without; 0 is published before
\* a folder is created, 66 only after the PDF data is obtained, 100 only
\* after the File is saved, and a run with show_progress that saved the File
\* ends with 0, 33, 66, 100 published.
C3_ProgressSequence ==
    \A j \in JobIds :
        LET job == jobs[j] IN
        job.pc \notin {"queued", "off"} =>
            /\ IsPrefix(job.published, <<0, 33, 66, 100>>)
            /\ ~job.args.show_progress => job.published = <<>>
            /\ (job.args.show_progress
                    /\ job.pc \in {"create_doctype_folder", "create_title_folder"}) =>
                  job.published = <<0>>
            /\ 66 \in Range(job.published) => job.rendered.kind = "pdf"
            /\ 100 \in Range(job.published) => Len(job.saved) = 1
            /\ (job.args.show_progress /\ job.saved # <<>>) =>
                  IF job.pc = "done"
                  THEN job.published = <<0, 33, 66, 100>>
                  ELSE job.pc = "publish100" /\ job.published = <<0, 33, 66>>

\* C3 witness: a run with show_progress is done and published 0, 33, 66, 100
C3_Witness ==
    \E j \in JobIds :
        /\ jobs[j].pc = "done"
        /\ jobs[j].args.show_progress
        /\ jobs[j].saved # <<>>
        /\ jobs[j].published = <<0, 33, 66, 100>>

\* C4: create_folder(folder, parent) returns parent + "/" + folder and that
\* folder exists on return; it does not call create_new_folder when the
\* folder existed at the call, so calls one after the other call
\* create_new_folder at most once for a path.
C4_CreateFolderOnce ==
    /\ call.pc = "returned" =>
          /\ call.ret = call.parent \o <<"/">> \o call.folder
          /\ call.ret \in folders
          /\ call.existed => CallsFor(call.ret) = call.callsBefore
          /\ ~call.existed => CallsFor(call.ret) = 1
    /\ \A p \in DOMAIN newFolderCalls : newFolderCalls[p] = 1 /\ p \in folders

\* C4 witness: a later call with the arguments of an earlier one returned
\* the folder the earlier call created
C4_Witness ==
    /\ call.pc = "returned"
    /\ call.existed
    /\ call.n >= 2
    /\ CallsFor(call.ret) = 1
    /\ call.ret \in folders

\* C5: with no enabled row, with render_pdf raising, or with render_pdf
\* returning None, attach_pdf logs an error and returns without raising,
\* saves no File and does not log the success message; with no enabled row
\* render_pdf is not called.
C5_AttachFailuresLogged ==
    /\ hook.pc # "raised"
    /\ (hook.pc \notin {"idle", "off"} /\ EnabledRows(settings, hook.doc.doctype) = <<>>) =>
          ~hook.rendered /\ hook.pc \in {"settings", "returned"}
    /\ (hook.pc = "returned"
            /\ (EnabledRows(settings, hook.doc.doctype) = <<>>
                   \/ hook.outcome \in {"none", "TypeError", "Exception"})) =>
          /\ Len(hook.errors) = 1
          /\ hook.saved = <<>>
          /\ BagCardinality(files) = hook.before
          /\ "saved and attached" \notin Range(hook.logs)

\* C5 witness: render_pdf raised an exception other than TypeError and
\* attach_pdf returned with the error logged
C5_Witness ==
    /\ hook.pc = "returned"
    /\ hook.outcome = "Exception"
    /\ hook.errors = <<"Unexpected error generating PDF">>
    /\ hook.saved = <<>>

\* C6: the File attach_pdf saves is in the target folder configured on the
\* enabled row, and in Home when no target folder is set on that row.
C6_FolderDefaultsToHome ==
    (hook.pc = "returned" /\ hook.saved # <<>>) =>
        IF "target_folder" \in DOMAIN hook.row
              /\ hook.row.target_folder # None /\ hook.row.target_folder # <<>>
        THEN hook.saved[1].folder = hook.row.target_folder
        ELSE hook.saved[1].folder = Home

\* C7: the file name is to_name with "/" replaced by "-" and ".pdf" appended
\* when auto_name is empty or does not start with "format:" in any letter
\* case, and the formatted name treated the same way when it does; it always
\* ends in ".pdf" and has no "/".
C7_FileNameFromNamingOption ==
    hook.saved # <<>> =>
        LET name == hook.saved[1].file_name
            auto == hook.row.auto_name
            plain == [i \in 1..Len(hook.doc.name) |->
                         IF hook.doc.name[i] = "/" THEN "-" ELSE hook.doc.name[i]]
            formatted == format_autoname(auto, hook.doc) IN
        /\ (auto = None \/ auto = <<>>) => name = plain \o DotPdf
        /\ (auto # None /\ auto # <<>> /\ ~HasFormatPrefix(auto)) => name = plain \o DotPdf
        /\ (auto # None /\ HasFormatPrefix(auto)) =>
              name = [i \in 1..Len(formatted) |->
                         IF formatted[i] = "/" THEN "-" ELSE formatted[i]] \o DotPdf
        /\ EndsWith(name, DotPdf)
        /\ "/" \notin Range(name)

\* C7 witness: a File named by a format: autoname written with capitals,
\* whose formatted name had a "/"
C7_Witness ==
    /\ hook.saved # <<>>
    /\ hook.row.auto_name = <<"F", "o", "r", "m", "a", "t", ":", "{", "x", "}", "/", "9">>
    /\ hook.saved[1].file_name = <<"x", "-", "9", ".", "p", "d", "f">>

\* C8: when the render of a print-format-builder-beta format returns None or
\* raises TypeError, execute logs an error and returns without saving a File
\* and without publishing 66 or 100; the folders it made sure of exist and
\* what it published before stays published: 0 and 33 with show_progress.
C8_BetaRenderFailureReturns ==
    \A j \in JobIds :
        LET job == jobs[j] IN
        job.outcome \in {"none", "TypeError"} =>
            /\ job.pc = "returned"
            /\ Len(job.errors) = 1
            /\ job.saved = <<>>
            /\ "saved and attached" \notin Range(job.logs)
            /\ 66 \notin Range(job.published) /\ 100 \notin Range(job.published)
            /\ job.published = IF job.args.show_progress THEN <<0, 33>> ELSE <<>>
            /\ DocumentedFolder(job.args) \in folders
            /\ Home \o <<"/">> \o job.args.doctype \in folders

\* C8 witness: a run with show_progress returned after a TypeError of the
\* render, with 0 and 33 published and no File saved
C8_Witness ==
    \E j \in JobIds :
        /\ jobs[j].pc = "returned"
        /\ jobs[j].outcome = "TypeError"
        /\ jobs[j].args.show_progress
        /\ jobs[j].published = <<0, 33>>
        /\ jobs[j].saved = <<>>

\* the path a job is about to call create_new_folder for
PendingCreate(job) ==
    IF job.pc = "create_doctype_folder" THEN JoinPath(Home, job.args.doctype)
    ELSE IF job.pc = "create_title_folder" THEN JoinPath(job.doctype_folder, job.args.title)
    ELSE None

\* C9: for jobs running concurrently each folder path is created at most
\* once: never are two jobs past the exists check of create_folder for the
\* same path and both about to call create_new_folder, and create_new_folder
\* is called at most once for a path.
C9_FolderCreatedAtMostOnce ==
    /\ \A j, k \in JobIds :
          (j # k /\ PendingCreate(jobs[j]) # None) =>
              PendingCreate(jobs[j]) # PendingCreate(jobs[k])
    /\ \A p \in DOMAIN newFolderCalls : newFolderCalls[p] <= 1

====
